---- MODULE Spec2Model ----
(***************************************************************************)
(* Model of set_rb_date_added_from_sc.py: one run of main(), from parsed   *)
(* arguments to exit.  Titles and paths are sequences of one-character     *)
(* strings; datetimes are integers counting microseconds; None is NoneDt.  *)
(* A LikeEntry keeps its index and title (sc_id and url are only copied    *)
(* into the manifests and decide nothing).                                 *)
(***************************************************************************)
EXTENDS Integers, Sequences, FiniteSets, TLC

\* ------------------------------------------------------------------ bounds
MaxEntries == 3
MaxRows == 2

\* --------------------------------------------------------------- constants
MinStep == 1
MillisFix == 900000
MicrosPerSecond == 1000000
SecondsPerMinute == 60

NoneDt == -1
ParseError == -2

\* ------------------------------------------------------------ input alphabets
\* Raw titles yt-dlp may report for an entry (before .strip()).
RawTitles == { <<"A">>, <<"a", " ">>, <<" ">> }
\* Sample djmdContent rows under the target prefix "/".  Title <<>> stands for
\* None or ""; created_at is None, a whole second or a value with a fraction.
RowKinds ==
    { [Title |-> <<" ", "A">>, FolderPath |-> <<"/", "a", ".", "m">>,
       created_at |-> 20 * MicrosPerSecond],
      [Title |-> <<" ", "A">>, FolderPath |-> <<"/", "Z", ".", "m">>,
       created_at |-> 21 * MicrosPerSecond + 500000],
      [Title |-> <<"Z">>, FolderPath |-> <<"/", "a", ".", "m">>, created_at |-> NoneDt],
      [Title |-> <<>>, FolderPath |-> <<"/", "Z", ".", "m">>,
       created_at |-> 20 * MicrosPerSecond] }

\* --step-seconds values
StepValues == {0, 1, 2}

\* --anchor-datetime: given = FALSE is the default "".  A given value is a date
\* followed by sep, HH:MM (hm minutes) and, when ss >= 0, :SS.
NoSeconds == -1
AnchorArgs ==
    { [given |-> FALSE, sep |-> "", hm |-> 0, ss |-> NoSeconds],
      [given |-> TRUE, sep |-> "T", hm |-> 1, ss |-> 5],
      [given |-> TRUE, sep |-> " ", hm |-> 1, ss |-> NoSeconds],
      [given |-> TRUE, sep |-> "/", hm |-> 1, ss |-> 5] }

BoundedSeq(S, n) == UNION { [1..k -> S] : k \in 0..n }

\* ------------------------------------------------------------ string helpers
IsSpace(c) == c = " "

RECURSIVE LStrip(_)
LStrip(s) == IF s # <<>> /\ IsSpace(Head(s)) THEN LStrip(Tail(s)) ELSE s

RECURSIVE RStrip(_)
RStrip(s) ==
    IF s # <<>> /\ IsSpace(s[Len(s)]) THEN RStrip(SubSeq(s, 1, Len(s) - 1)) ELSE s

\* str.strip()
Strip(s) == RStrip(LStrip(s))

\* " ".join(s.split()) for a stripped s
RECURSIVE JoinWords(_)
JoinWords(s) ==
    IF s = <<>> THEN <<>>
    ELSE IF IsSpace(Head(s)) THEN <<" ">> \o JoinWords(LStrip(s))
    ELSE <<Head(s)>> \o JoinWords(Tail(s))

\* NFKC followed by the full-width colon replacement, per character (the
\* character U+FF1A is written "FULLWIDTH_COLON")
FoldChar(c) == IF c = "FULLWIDTH_COLON" THEN ":" ELSE c

\* str.lower(), per character
LowerChar(c) ==
    CASE c = "A" -> "a"
      [] c = "Z" -> "z"
      [] OTHER -> c

normalize_title(raw) ==
    JoinWords(Strip([i \in 1..Len(raw) |-> LowerChar(FoldChar(raw[i]))]))

\* Path(p).stem: the last component without its last suffix
RECURSIVE LastIndexOf(_, _, _)
LastIndexOf(s, c, i) ==
    IF i = 0 THEN 0 ELSE IF s[i] = c THEN i ELSE LastIndexOf(s, c, i - 1)

PathStem(p) ==
    LET slash == LastIndexOf(p, "/", Len(p))
        name == SubSeq(p, slash + 1, Len(p))
        dot == LastIndexOf(name, ".", Len(name))
    IN IF dot > 1 THEN SubSeq(name, 1, dot - 1) ELSE name

\* ------------------------------------------------------------ datetime helpers
\* a format that accepts any separator between date and time
Strptime_AnySeparator(raw, fmt) ==
    IF (raw.ss # NoSeconds) # fmt.secs THEN ParseError
    ELSE IF fmt.secs THEN (raw.hm * SecondsPerMinute + raw.ss) * MicrosPerSecond
    ELSE raw.hm * SecondsPerMinute * MicrosPerSecond

\* The strptime formats tried in order: separator, and whether :SS is required
AnchorFormats ==
    << [sep |-> "T", secs |-> TRUE], [sep |-> " ", secs |-> TRUE],
       [sep |-> "T", secs |-> FALSE], [sep |-> " ", secs |-> FALSE] >>

Strptime(raw, fmt) ==
    IF raw.sep # fmt.sep \/ (raw.ss # NoSeconds) # fmt.secs THEN ParseError
    ELSE IF fmt.secs THEN (raw.hm * SecondsPerMinute + raw.ss) * MicrosPerSecond
    ELSE raw.hm * SecondsPerMinute * MicrosPerSecond

\* The first format that parses decides; ParseError stands for the ValueError
RECURSIVE TryFormats(_, _)
TryFormats(raw, i) ==
    IF i > Len(AnchorFormats) THEN ParseError
    ELSE IF Strptime(raw, AnchorFormats[i]) # ParseError THEN Strptime(raw, AnchorFormats[i])
    ELSE TryFormats(raw, i + 1)

parse_anchor_datetime(raw) == TryFormats(raw, 1)

ensure_millis_precision(dt) ==
    IF dt % MicrosPerSecond = 0 THEN dt + MillisFix ELSE dt

\* ------------------------------------------------------------ fetch_likes
RECURSIVE LikesFrom(_, _)
LikesFrom(entries, i) ==
    IF i > Len(entries) THEN <<>>
    ELSE LET title == Strip(entries[i])
         IN IF title = <<>> THEN LikesFrom(entries, i + 1)
            ELSE <<[index |-> i, title |-> title]>> \o LikesFrom(entries, i + 1)

fetch_likes(entries) == LikesFrom(entries, 1)

\* ------------------------------------------------------------ build_likes_maps
\* a plain assignment m[k] = v in place of setdefault
SetDefault_Overwrite(m, k, v) == IF k \in DOMAIN m THEN [m EXCEPT ![k] = v] ELSE m @@ (k :> v)

SetDefault(m, k, v) == IF k \in DOMAIN m THEN m ELSE m @@ (k :> v)

RECURSIVE ExactMap(_, _)
ExactMap(likes, n) ==
    IF n = 0 THEN <<>>
    ELSE SetDefault(ExactMap(likes, n - 1), likes[n].title, likes[n])

RECURSIVE NormMap(_, _)
NormMap(likes, n) ==
    IF n = 0 THEN <<>>
    ELSE LET norm == normalize_title(likes[n].title)
             prev == NormMap(likes, n - 1)
         IN IF norm # <<>> THEN SetDefault(prev, norm, likes[n]) ELSE prev

build_likes_maps(likes) ==
    [exact |-> ExactMap(likes, Len(likes)), norm |-> NormMap(likes, Len(likes))]

\* ------------------------------------------------------------ match_rows_to_likes
find_local_title(row) == IF row.Title # <<>> THEN row.Title ELSE PathStem(row.FolderPath)

Candidates(row) == <<find_local_title(row), PathStem(row.FolderPath)>>

\* First candidate position hitting by_exact, 0 when none
ExactHit(cands, by_exact) ==
    IF cands[1] \in DOMAIN by_exact THEN 1
    ELSE IF cands[2] \in DOMAIN by_exact THEN 2 ELSE 0

NormKeyHits(c, by_norm) ==
    normalize_title(c) # <<>> /\ normalize_title(c) \in DOMAIN by_norm

NormHit(cands, by_norm) ==
    IF NormKeyHits(cands[1], by_norm) THEN 1
    ELSE IF NormKeyHits(cands[2], by_norm) THEN 2 ELSE 0

NoItem == [index |-> 0, title |-> <<>>]

\* the two passes in the opposite order
LookupRow_NormFirst(row, by_exact, by_norm) ==
    LET cands == Candidates(row)
        e == ExactHit(cands, by_exact)
        n == NormHit(cands, by_norm)
    IN IF n # 0 THEN [item |-> by_norm[normalize_title(cands[n])], mode |-> "normalized"]
       ELSE IF e # 0 THEN [item |-> by_exact[cands[e]], mode |-> "exact"]
       ELSE [item |-> NoItem, mode |-> ""]

\* The item and mode the two lookup passes settle on for one row
LookupRow(row, by_exact, by_norm) ==
    LET cands == Candidates(row)
        e == ExactHit(cands, by_exact)
        n == NormHit(cands, by_norm)
    IN IF e # 0 THEN [item |-> by_exact[cands[e]], mode |-> "exact"]
       ELSE IF n # 0 THEN [item |-> by_norm[normalize_title(cands[n])], mode |-> "normalized"]
       ELSE [item |-> NoItem, mode |-> ""]

MakeMatch(i, row, found) ==
    [row |-> i, local_title |-> find_local_title(row), sc_index |-> found.item.index,
     sc_title |-> found.item.title, match_mode |-> found.mode,
     old_created_at |-> row.created_at, new_created_at |-> NoneDt]

MakeUnmatched(i, row) ==
    [row |-> i, local_title |-> find_local_title(row), reason |-> "not-found-in-likes"]

\* the loop body without its "continue"
MatchStep_NoContinue(acc, i, row, by_exact, by_norm) ==
    LET found == LookupRow(row, by_exact, by_norm)
        un == IF found.item = NoItem
              THEN [acc EXCEPT !.unmatched = Append(@, MakeUnmatched(i, row))]
              ELSE acc
    IN [un EXCEPT !.matched = Append(@, MakeMatch(i, row, found))]

\* the loop body skipping a row whose like is already matched
MatchStep_Dedup(acc, i, row, by_exact, by_norm) ==
    LET found == LookupRow(row, by_exact, by_norm)
    IN IF found.item = NoItem
          \/ \E k \in 1..Len(acc.matched) : acc.matched[k].sc_index = found.item.index
       THEN [acc EXCEPT !.unmatched = Append(@, MakeUnmatched(i, row))]
       ELSE [acc EXCEPT !.matched = Append(@, MakeMatch(i, row, found))]

\* One iteration of the loop over rows: appends to exactly one of the lists
MatchStep(acc, i, row, by_exact, by_norm) ==
    LET found == LookupRow(row, by_exact, by_norm)
    IN IF found.item = NoItem
       THEN [acc EXCEPT !.unmatched = Append(@, MakeUnmatched(i, row))]
       ELSE [acc EXCEPT !.matched = Append(@, MakeMatch(i, row, found))]

RECURSIVE MatchLoop(_, _, _, _)
MatchLoop(rs, n, by_exact, by_norm) ==
    IF n = 0 THEN [matched |-> <<>>, unmatched |-> <<>>]
    ELSE MatchStep(MatchLoop(rs, n - 1, by_exact, by_norm), n, rs[n], by_exact, by_norm)

match_rows_to_likes(rs, by_exact, by_norm) == MatchLoop(rs, Len(rs), by_exact, by_norm)

\* ------------------------------------------------------------ assignment
\* insertion before the elements of equal key
Insert_Unstable(s, x) ==
    LET k == Cardinality({ j \in 1..Len(s) : s[j].sc_index < x.sc_index })
    IN SubSeq(s, 1, k) \o <<x>> \o SubSeq(s, k + 1, Len(s))

\* sorted(matched, key=lambda x: x.sc_index): stable insertion by key
Insert(s, x) ==
    LET k == Cardinality({ j \in 1..Len(s) : s[j].sc_index <= x.sc_index })
    IN SubSeq(s, 1, k) \o <<x>> \o SubSeq(s, k + 1, Len(s))

RECURSIVE SortedPrefix(_, _)
SortedPrefix(ms, n) == IF n = 0 THEN <<>> ELSE Insert(SortedPrefix(ms, n - 1), ms[n])

\* the list left in input order
SortByIndex_Unsorted(ms) == ms

SortByIndex(ms) == SortedPrefix(ms, Len(ms))

\* the flag ignored
OffsetSteps_AlwaysDense(m, pos, use_like_index_offset) == pos

\* pos is the 0-based position enumerate() yields
OffsetSteps(m, pos, use_like_index_offset) ==
    IF use_like_index_offset THEN m.sc_index - 1 ELSE pos

NewCreatedAt(m, pos, anch, a) ==
    ensure_millis_precision(
        anch - OffsetSteps(m, pos, a.use_like_index_offset) * a.step_seconds * MicrosPerSecond)

AssignAll(ms, anch, a) ==
    [p \in 1..Len(ms) |-> [ms[p] EXCEPT !.new_created_at = NewCreatedAt(ms[p], p - 1, anch, a)]]

\* max(m.old_created_at for m in matched if m.old_created_at is not None)
OldTimes(ms) == { ms[k].old_created_at : k \in 1..Len(ms) } \ {NoneDt}

MaxOf(S) == CHOOSE x \in S : \A y \in S : y <= x

\* ------------------------------------------------------------ state
VARIABLES
    args,            \* parsed command line
    remote,          \* titles of the entries yt-dlp reports for the likes URL
    db,              \* djmdContent rows under the target prefix, as stored in master.db
    pc,              \* position in main()
    exit_code,       \* NoExit while running; 1 stands for an uncaught exception
    likes, by_exact, by_norm,
    rows,            \* the session's row objects
    matched, unmatched,
    anchor,
    matched_sorted,
    calls            \* the calls main() has made so far

vars == <<args, remote, db, pc, exit_code, likes, by_exact, by_norm, rows,
          matched, unmatched, anchor, matched_sorted, calls>>

NoExit == -1

ArgSets ==
    [step_seconds : StepValues, anchor_datetime : AnchorArgs,
     use_like_index_offset : BOOLEAN, apply : BOOLEAN]

Init ==
    /\ args \in ArgSets
    /\ remote = <<>>
    /\ db = <<>>
    /\ pc = "start"
    /\ exit_code = NoExit
    /\ likes = <<>>
    /\ by_exact = <<>>
    /\ by_norm = <<>>
    /\ rows = <<>>
    /\ matched = <<>>
    /\ unmatched = <<>>
    /\ anchor = NoneDt
    /\ matched_sorted = <<>>
    /\ calls = {}

Return(code) ==
    /\ pc' = "exited"
    /\ exit_code' = code

Raise ==
    /\ pc' = "raised"
    /\ exit_code' = 1

\* lines 246-276: the step check, then the two path checks
Validate ==
    /\ pc = "start"
    /\ \E db_exists \in BOOLEAN, target_exists \in BOOLEAN :
          IF args.step_seconds < MinStep THEN Return(2)
          ELSE IF ~db_exists THEN Return(2)
          ELSE IF ~target_exists THEN Return(2)
          ELSE pc' = "fetch" /\ UNCHANGED exit_code
    /\ UNCHANGED <<args, remote, db, likes, by_exact, by_norm, rows, matched,
                   unmatched, anchor, matched_sorted, calls>>

\* lines 278-285: fetch_likes raises when yt-dlp is missing or fails, or no entry
\* has a title
FetchLikes ==
    /\ pc = "fetch"
    /\ \E ytdlp_ok \in BOOLEAN, entries \in BoundedSeq(RawTitles, MaxEntries) :
          IF ~ytdlp_ok
          THEN /\ Raise
               /\ UNCHANGED <<remote, likes, by_exact, by_norm>>
          ELSE /\ remote' = entries
               /\ IF fetch_likes(entries) = <<>>
                  THEN /\ Raise
                       /\ UNCHANGED <<likes, by_exact, by_norm>>
                  ELSE /\ likes' = fetch_likes(entries)
                       /\ LET maps == build_likes_maps(likes')
                          IN /\ by_exact' = maps.exact
                             /\ by_norm' = maps.norm
                       /\ pc' = "open"
                       /\ UNCHANGED exit_code
    /\ calls' = calls \cup {"fetch_likes"}
    /\ UNCHANGED <<args, db, rows, matched, unmatched, anchor, matched_sorted>>

\* lines 287-298
OpenDb ==
    /\ pc = "open"
    /\ \E stored \in BoundedSeq(RowKinds, MaxRows) :
          /\ db' = stored
          /\ rows' = stored
    /\ IF rows' = <<>> THEN Return(3) ELSE pc' = "match" /\ UNCHANGED exit_code
    /\ calls' = calls \cup {"get_content"}
    /\ UNCHANGED <<args, remote, likes, by_exact, by_norm, matched, unmatched,
                   anchor, matched_sorted>>

\* lines 300-334
MatchRows ==
    /\ pc = "match"
    /\ LET result == match_rows_to_likes(rows, by_exact, by_norm)
       IN /\ matched' = result.matched
          /\ unmatched' = result.unmatched
    /\ IF matched' = <<>> THEN Return(3) ELSE pc' = "anchor" /\ UNCHANGED exit_code
    /\ calls' = calls \cup {"match_rows_to_likes"}
    /\ UNCHANGED <<args, remote, db, likes, by_exact, by_norm, rows, anchor,
                   matched_sorted>>

\* lines 336-342; now stands for datetime.now()
ResolveAnchor ==
    /\ pc = "anchor"
    /\ IF args.anchor_datetime.given
       THEN IF parse_anchor_datetime(args.anchor_datetime) = ParseError
            THEN Raise /\ UNCHANGED anchor
            ELSE /\ anchor' = ensure_millis_precision(parse_anchor_datetime(args.anchor_datetime))
                 /\ pc' = "assign"
                 /\ UNCHANGED exit_code
       ELSE IF OldTimes(matched) = {}
            THEN Raise /\ UNCHANGED anchor
            ELSE /\ anchor' = ensure_millis_precision(MaxOf(OldTimes(matched)))
                 /\ pc' = "assign"
                 /\ UNCHANGED exit_code
    /\ calls' = calls \cup {"resolve_anchor"}
    /\ UNCHANGED <<args, remote, db, likes, by_exact, by_norm, rows, matched,
                   unmatched, matched_sorted>>

NewValueOfRow(ms, i) == (CHOOSE p \in 1..Len(ms) : ms[p].row = i)

\* lines 344-351: the Match objects are shared by matched and matched_sorted
Assign ==
    /\ pc = "assign"
    /\ matched_sorted' = AssignAll(SortByIndex(matched), anchor, args)
    /\ matched' = [k \in 1..Len(matched) |->
                      matched_sorted'[NewValueOfRow(matched_sorted', matched[k].row)]]
    /\ rows' = [i \in 1..Len(rows) |->
                  IF \E p \in 1..Len(matched_sorted') : matched_sorted'[p].row = i
                  THEN [rows[i] EXCEPT !.created_at =
                           matched_sorted'[NewValueOfRow(matched_sorted', i)].new_created_at]
                  ELSE rows[i]]
    /\ pc' = "persist"
    /\ calls' = calls \cup {"assign"}
    /\ UNCHANGED <<args, remote, db, exit_code, likes, by_exact, by_norm, unmatched, anchor>>

\* the commit taken whatever args.apply says
Persist_AlwaysCommit ==
    /\ pc = "persist"
    /\ db' = rows
    /\ calls' = calls \cup {"commit"}
    /\ Return(0)
    /\ UNCHANGED <<args, remote, likes, by_exact, by_norm, rows, matched, unmatched,
                   anchor, matched_sorted>>

\* lines 390-440: commit (which the commit guard may block) or rollback, then the
\* re-read for applied_updates.tsv, close and return 0
Persist ==
    /\ pc = "persist"
    /\ IF args.apply
       THEN \E blocked \in BOOLEAN :
              IF blocked
              THEN /\ rows' = db
                   /\ calls' = calls \cup {"commit_blocked", "rollback"}
                   /\ Return(4)
                   /\ UNCHANGED db
              ELSE /\ db' = rows
                   /\ calls' = calls \cup {"commit"}
                   /\ Return(0)
                   /\ UNCHANGED rows
       ELSE /\ rows' = db
            /\ calls' = calls \cup {"rollback"}
            /\ Return(0)
            /\ UNCHANGED db
    /\ UNCHANGED <<args, remote, likes, by_exact, by_norm, matched, unmatched,
                   anchor, matched_sorted>>

Next ==
    \/ Validate
    \/ FetchLikes
    \/ OpenDb
    \/ MatchRows
    \/ ResolveAnchor
    \/ Assign
    \/ Persist

Spec == Init /\ [][Next]_vars

\* ------------------------------------------------------------ properties
Terminal == pc \in {"exited", "raised"}
\* build_likes_maps has just returned (the maps are not written afterwards)
Fetched == pc = "open"
Matching == "match_rows_to_likes" \in calls
\* match_rows_to_likes has just returned
Matched == Matching /\ "resolve_anchor" \notin calls
Assigned == "assign" \in calls
M == 1..Len(matched)
StepMicros == args.step_seconds * MicrosPerSecond

\* An --anchor-datetime in none of the four accepted layouts
Unparsable(raw) == raw.given /\ raw.sep \notin {"T", " "}

\* The entries of likes, as a set
LikeSet == { likes[k] : k \in 1..Len(likes) }

LowestRank(S) == CHOOSE x \in S : \A y \in S : x.index <= y.index

\* Candidate titles of row r that are keys of by_exact
ExactCands(r) == { c \in 1..2 : Candidates(rows[r])[c] \in DOMAIN by_exact }

MatchOfRow(r) == CHOOSE k \in M : matched[k].row = r

\* C1: after assignment, in either offset mode, a matched record of lower
\* reference rank has a strictly later new timestamp than one of higher rank.
C1_StrictlyDecreasing ==
    Assigned =>
        \A i \in M, j \in M :
            matched[i].sc_index < matched[j].sc_index
                => matched[i].new_created_at > matched[j].new_created_at

C1_Witness ==
    /\ Assigned
    /\ ~args.use_like_index_offset
    /\ args.step_seconds = 2
    /\ Len(matched) = 2
    /\ matched[1].sc_index > matched[2].sc_index + 1

\* C2 (as claimed): every matched record of reference rank 1 receives exactly
\* the sub-second-fixed anchor, in both offset modes.
C2_EveryRankOneGetsAnchor ==
    Assigned =>
        \A i \in M :
            matched[i].sc_index = 1
                => matched[i].new_created_at = ensure_millis_precision(anchor)

\* C2 (amended): in rankGap mode every rank-1 matched record receives the
\* fixed anchor; in dense mode the first rank-1 matched record receives it and
\* the rank-1 record with k rank-1 records before it receives anchor - k * step.
C2_RankOneOffsets ==
    Assigned =>
        \A i \in M :
            matched[i].sc_index = 1 =>
                LET k == Cardinality({ j \in 1..(i - 1) : matched[j].sc_index = 1 })
                IN matched[i].new_created_at =
                     ensure_millis_precision(anchor)
                       - (IF args.use_like_index_offset THEN 0 ELSE k) * StepMicros

C2_Witness ==
    /\ Assigned
    /\ ~args.use_like_index_offset
    /\ Len(matched) = 2
    /\ matched[1].sc_index = 1
    /\ matched[2].sc_index = 1
    /\ matched[1].new_created_at = anchor
    /\ matched[2].new_created_at = anchor - StepMicros

\* C3: once anchor resolution has run with no override or a parseable one, an
\* anchor is set and the run goes on to assignment: it has not raised.
C3_AnchorAlwaysResolved ==
    ("resolve_anchor" \in calls /\ ~Unparsable(args.anchor_datetime))
        => (pc # "raised" /\ anchor # NoneDt)

\* C4 (as claimed): with a step below 1 or an unparsable anchor override, neither
\* matching nor assignment ever runs, and the run ends in an error.
C4_ConfigErrorBeforeMatching ==
    (args.step_seconds < MinStep \/ Unparsable(args.anchor_datetime)) =>
        /\ ~Matching
        /\ ~Assigned
        /\ Terminal => exit_code # 0

\* C4 (amended): a step below 1 ends the run with exit code 2 before fetching,
\* matching or assignment; an unparsable anchor override is found only after
\* matching, and then still before assignment and before any commit, and the
\* run ends in an error.
C4_ConfigErrorBeforeAssignment ==
    /\ args.step_seconds < MinStep =>
          /\ calls = {}
          /\ Terminal => exit_code = 2
    /\ Unparsable(args.anchor_datetime) =>
          /\ ~Assigned
          /\ "commit" \notin calls
          /\ pc \notin {"assign", "persist"}
          /\ Terminal => exit_code # 0
          /\ "resolve_anchor" \in calls => (Matching /\ pc = "raised")

C4_Witness ==
    /\ Unparsable(args.anchor_datetime)
    /\ pc = "raised"
    /\ "resolve_anchor" \in calls
    /\ Len(matched) = 2

\* C5: a row with a candidate title that is a key of by_exact is matched in
\* mode exact to the entry of its first such candidate, whatever a normalized
\* lookup would give; a normalized match has no candidate in by_exact.
C5_ExactFirst ==
    Matched =>
        \A r \in 1..Len(rows) :
            /\ ExactCands(r) # {} =>
                  /\ \E k \in M : matched[k].row = r
                  /\ LET m == matched[MatchOfRow(r)]
                         c == CHOOSE c \in ExactCands(r) : \A d \in ExactCands(r) : c <= d
                     IN /\ m.match_mode = "exact"
                        /\ m.sc_index = by_exact[Candidates(rows[r])[c]].index
                        /\ m.sc_title = Candidates(rows[r])[c]
            /\ \A k \in M :
                  (matched[k].row = r /\ matched[k].match_mode = "normalized")
                      => ExactCands(r) = {}

\* an exact hit on the second candidate while the first candidate's normalized
\* key resolves to another entry
C5_Witness ==
    /\ Matched
    /\ \E k \in M :
          LET cands == Candidates(rows[matched[k].row])
          IN /\ matched[k].match_mode = "exact"
             /\ cands[1] \notin DOMAIN by_exact
             /\ normalize_title(cands[1]) \in DOMAIN by_norm
             /\ by_norm[normalize_title(cands[1])].index # matched[k].sc_index

\* C6: matching partitions the rows: every row is in exactly one of matched
\* and unmatched, exactly once, and the two counts add up to the row count.
C6_Partition ==
    Matching =>
        /\ Len(matched) + Len(unmatched) = Len(rows)
        /\ \A r \in 1..Len(rows) :
              Cardinality({ k \in M : matched[k].row = r })
                + Cardinality({ k \in 1..Len(unmatched) : unmatched[k].row = r }) = 1

C6_Witness ==
    /\ Matching
    /\ Len(rows) = 2
    /\ Len(matched) = 1
    /\ Len(unmatched) = 1
    /\ unmatched[1].row = 1

\* C7: by_exact maps each title of likes to the lowest-rank entry with that
\* title, and by_norm each non-empty normalized key to the lowest-rank entry
\* with that key.
C7_FirstMatchWins ==
    Fetched =>
        /\ DOMAIN by_exact = { e.title : e \in LikeSet }
        /\ \A t \in DOMAIN by_exact :
              by_exact[t] = LowestRank({ e \in LikeSet : e.title = t })
        /\ DOMAIN by_norm = { normalize_title(e.title) : e \in LikeSet } \ {<<>>}
        /\ \A n \in DOMAIN by_norm :
              by_norm[n] = LowestRank({ e \in LikeSet : normalize_title(e.title) = n })

\* a repeated title, and another title with the same normalized key
C7_Witness ==
    /\ Fetched
    /\ Len(likes) = 3
    /\ likes[1].title = likes[3].title
    /\ likes[1].title # likes[2].title
    /\ normalize_title(likes[1].title) = normalize_title(likes[2].title)
    /\ by_exact[likes[3].title].index = 1
    /\ by_norm[normalize_title(likes[2].title)].index = 1

\* C8: in rankGap mode the new timestamps of two matched records differ by
\* exactly (difference of their ranks) * step.
C8_RankGapDifference ==
    (Assigned /\ args.use_like_index_offset) =>
        \A i \in M, j \in M :
            matched[i].new_created_at - matched[j].new_created_at
                = (matched[j].sc_index - matched[i].sc_index) * StepMicros

\* ranks 1 and 3 matched, the entry of rank 2 present and unmatched
C8_Witness ==
    /\ Assigned
    /\ args.use_like_index_offset
    /\ args.step_seconds = 2
    /\ Len(likes) = 3
    /\ \E i \in M, j \in M :
          /\ matched[i].sc_index = 1
          /\ matched[j].sc_index = 3
          /\ matched[i].new_created_at - matched[j].new_created_at = 2 * StepMicros

\* C9: a commit happens only with the apply flag set and after assignment;
\* without a commit the stored rows keep the timestamps they were read with;
\* a run without the apply flag that assigned timestamps ends rolled back.
C9_DryRunByDefault ==
    /\ "commit" \in calls => (args.apply /\ Assigned /\ pc = "exited" /\ exit_code = 0)
    /\ "commit" \notin calls =>
          /\ \A k \in M : db[matched[k].row].created_at = matched[k].old_created_at
          /\ Terminal => rows = db
    /\ (Terminal /\ Assigned /\ ~args.apply) =>
          /\ "rollback" \in calls
          /\ \A k \in M : rows[matched[k].row].created_at = matched[k].old_created_at

C9_Witness ==
    /\ Terminal
    /\ Assigned
    /\ ~args.apply
    /\ exit_code = 0
    /\ \E k \in M : /\ matched[k].new_created_at # matched[k].old_created_at
                    /\ rows[matched[k].row].created_at = matched[k].old_created_at

\* C10 (as claimed): two records matched to the same reference entry receive
\* the identical new timestamp, in either offset mode.
C10_DuplicatesIdentical ==
    Assigned =>
        \A i \in M, j \in M :
            matched[i].sc_index = matched[j].sc_index
                => matched[i].new_created_at = matched[j].new_created_at

\* C10 (amended): every row that resolves to a reference entry is kept in
\* matched, also when another row resolves to the same entry; two such records
\* receive the identical timestamp in rankGap mode, and in dense mode the later
\* one is earlier by step times the number of same-entry records from the one
\* to the other.
C10_DuplicatesKept ==
    /\ Matched =>
          \A r \in 1..Len(rows) :
              LookupRow(rows[r], by_exact, by_norm).item # NoItem
                  => \E k \in M : matched[k].row = r
    /\ Assigned =>
          \A i \in M, j \in M :
              (i < j /\ matched[i].sc_index = matched[j].sc_index) =>
                  LET between == Cardinality({ k \in (i + 1)..j :
                                                 matched[k].sc_index = matched[i].sc_index })
                  IN matched[i].new_created_at - matched[j].new_created_at
                       = (IF args.use_like_index_offset THEN 0 ELSE between) * StepMicros

C10_Witness ==
    /\ Assigned
    /\ args.use_like_index_offset
    /\ Len(matched) = 2
    /\ matched[1].sc_index = matched[2].sc_index
    /\ matched[1].row # matched[2].row
    /\ matched[1].new_created_at = matched[2].new_created_at

====
